---- MODULE Spec2Model ----
(***************************************************************************)
(* Real-time event distribution and client-state reconciliation of the     *)
(* case-management application:                                            *)
(*   - Backend/server.js: the socket.io connection handlers (identity and  *)
(*     case rooms, chat fan-out, read receipts, notifications, case        *)
(*     updates) and the 30 s response cache middleware;                    *)
(*   - contexts/ChatContext (ChatProvider, the TypeScript source kept in   *)
(*     DEPLOYMENT_GUIDE.md lines 263-562; "ChatContext n" below is line n  *)
(*     of that file): the client's chat state, its chat:receive listener,  *)
(*     sendMessage, markAsRead and getConversationMessages;                *)
(*   - services/socket and contexts/SocketContext (part_003, part_000):    *)
(*     the client's socket link, its reconnection and its listeners;       *)
(*   - src/queryClient.ts: the entity cache's freshness and eviction;      *)
(*   - hooks/useToast (part_002) and components/ui/Toast.tsx: toasts;      *)
(*   - utils/errorHandler.ts: the text shown for a failed API call.        *)
(* The specifications that share the module: Spec (connections, identity   *)
(* rooms and chat fan-out for three connections), RoomSpec (identity and   *)
(* case rooms and the other delivery handlers for two connections),        *)
(* FaultSpec (RoomSpec with events that carry no payload), CacheSpec (the  *)
(* response cache), ChatSpec (one client's ChatProvider), SendSpec (one    *)
(* client's sendMessage with the server and a receiver), ClientSpec (one   *)
(* client's socket link against the server), ListenerSpec (the client      *)
(* socket's listeners), QuerySpec (one query of the entity cache),         *)
(* DeriveSpec (computedConversations on any short message list), ToastSpec *)
(* (one useToast instance) and ErrorSpec (handleApiError).                 *)
(***************************************************************************)
EXTENDS Integers, Sequences, FiniteSets, TLC

VARIABLES
    clock,           \* the wall clock read by Date.now() / new Date(), in ms
    \* ---- socket server (Backend/server.js 91-172)
    sockets,         \* live connections (socket ids)
    closed,          \* socket ids of connections that have disconnected
    connectedUsers,  \* Map socketId -> userId
    rooms,           \* socket.io rooms: room name -> set of member sockets
    inbox,           \* per live connection: the events the server emitted to it
    emitted,         \* number of chat:send events handled so far
    fatal,           \* the server process has ended on an uncaught exception
    \* ---- response cache (Backend/server.js 16-39, 199-210)
    cache,           \* Map key -> {data, timestamp}
    store,           \* the durable store the route handlers read: a version number
    requests,        \* number of HTTP requests handled so far
    last,            \* the response to the request handled last
    computedFor,     \* per cached key: the requester whose request computed
                     \* the stored body (bookkeeping, not program state)
    \* ---- one client's ChatProvider (contexts/ChatContext)
    messages,        \* useState<ChatMessage[]>
    conversations,   \* useState<ChatConversation[]>
    unreadCount,     \* useState(0): the total unread counter
    send,            \* the sendMessage call in flight or completed last
    mark,            \* the markAsRead call in flight or completed last
    db,              \* the durable store's chat messages (behind chatApi)
    sentLog,         \* per successful send: the local id and the store's id
    toasts,          \* user-visible failure notices raised by the chat layer
    consoleErrors,   \* console.error calls of the chat layer
    ops,             \* number of events and calls the provider has been given
    \* ---- one client's socket link (services/socket, SocketProvider)
    user,            \* useAuth().user?.staffId, None while logged out
    link,            \* the socket.io-client connection: connecting, connected,
                     \* reconnecting, failed
    attempts,        \* reconnection attempts made since the connection was lost
    isConnected,     \* SocketProvider's useState(false)
    sid,             \* the server's socket id of the client's live connection
    sendBuffer,      \* packets emitted while not connected, kept for the next connect
    wire,            \* packets handed to the transport and not yet handled
    load,            \* the loadChatData call: idle, awaiting, done, failed
    missed,          \* a chat event for the user was published while the link
                     \* was down and no fetch has completed since
    viewing,         \* the case a mounted component has joined, None if none
    \* ---- the client socket's listeners (SocketProvider 128-155)
    listeners,       \* per event name: the callbacks registered with socket.on
    held,            \* per event name: the callback its subscriber registered
                     \* and has not unsubscribed, NoCallback if none
    gen,             \* number of callbacks created so far
    invoked,         \* the callbacks called for the event dispatched last
    \* ---- one query of the entity cache (queryClient)
    qEntry,          \* the cached entry {updatedAt}, NoEntry if none
    qObservers,      \* number of mounted components observing the query
    qFetching,       \* a fetch of the query is in flight
    qInactiveSince,  \* when the entry was last left without an observer
    qServed,         \* what the component mounted last was given at mount
    \* ---- computedConversations on a message list (ChatContext 495-535)
    local,           \* the messages the summaries are derived from
    computed,        \* the summaries derived last
    \* ---- one useToast instance (hooks/useToast, components/ui/Toast)
    toastList,       \* state.toasts
    toastIdRef,      \* toastIdRef.current
    toastTimers,     \* the pending setTimeout callbacks: {id, due}
    \* ---- utils/errorHandler
    handled          \* the handleApiError call made last and what it returned

serverVars == <<sockets, closed, connectedUsers, rooms, inbox, emitted, fatal>>

cacheVars == <<cache, store, requests, last, computedFor>>

chatVars == <<messages, conversations, unreadCount, send, mark, db, sentLog,
              toasts, consoleErrors, ops>>

linkVars == <<user, link, attempts, isConnected, sid, sendBuffer, wire, load,
              missed, viewing>>

listenerVars == <<listeners, held, gen, invoked>>

queryVars == <<qEntry, qObservers, qFetching, qInactiveSince, qServed>>

deriveVars == <<local, computed>>

toastVars == <<toastList, toastIdRef, toastTimers>>

uiVars == <<deriveVars, toastVars, handled>>

clientVars == <<linkVars, listenerVars, queryVars, uiVars>>

vars == <<clock, serverVars, cacheVars, chatVars, clientVars>>

----------------------------------------------------------------------------
(* Bounds and input domains *)

SocketIds == {"s1", "s2", "s3"}
Users == {"A", "B"}
Bodies == {"hi"}
MaxEmits == 1
MaxTick == 1

None == "none"

\* Map helpers (JavaScript Map.set / Map.delete on a function with a finite domain)
MapSet(m, k, v) ==
    [x \in (DOMAIN m) \cup {k} |-> IF x = k THEN v ELSE m[x]]

MapDelete(m, k) ==
    [x \in (DOMAIN m) \ {k} |-> m[x]]

EmptyMap == [x \in {} |-> None]

----------------------------------------------------------------------------
(* Socket server *)

UserRoom(userId) == <<"user", userId>>

\* The cases whose rooms are used, and the room `case:${caseId}`
CaseIds == {"42"}

CaseRoom(caseId) == <<"case", caseId>>

RoomNames == {UserRoom(u) : u \in Users} \cup {CaseRoom(c) : c \in CaseIds}

\* JavaScript truthiness of a userId (if (userId) ...): every non-empty string
Truthy(userId) == userId # "" /\ userId # None

\* The name the client sends as senderName (user.name of the logged-in user)
NameOf(userId) == <<"name", userId>>

\* The chat:send payloads: sendChatMessage(receiverId, senderId, senderName, message)
ChatSendData ==
    {[receiverId |-> r, senderId |-> u, senderName |-> NameOf(u), message |-> b] :
        r \in Users, u \in Users, b \in Bodies}

\* server.js 121-128: the chat:receive payload
ChatReceivePayload(data, now) ==
    [id         |-> <<"msg", now>>,
     senderId   |-> data.senderId,
     senderName |-> data.senderName,
     message    |-> data.message,
     timestamp  |-> now,
     read       |-> FALSE]

\* io.to(room): the sockets that are in the room when the event is emitted
MembersOfFirstOnly(room) ==
    IF rooms[room] = {} THEN {} ELSE {CHOOSE s \in rooms[room] : TRUE}

MembersOf(room) ==
    IF room \in DOMAIN rooms THEN rooms[room] ELSE {}

\* io.to(room).emit(name, payload): one event to every member socket
EmitTo(room, name, payload) ==
    [t \in SocketIds |->
        IF t \in MembersOf(room)
        THEN Append(inbox[t], [name |-> name, payload |-> payload])
        ELSE inbox[t]]

\* The same emit applied to a given state of the inboxes, for a handler that
\* emits more than once
EmitIntoOrBroadcast(box, room, name, payload) ==
    [t \in SocketIds |->
        IF t \in MembersOf(room) \/ MembersOf(room) = {}
        THEN Append(box[t], [name |-> name, payload |-> payload])
        ELSE box[t]]

EmitInto(box, room, name, payload) ==
    [t \in SocketIds |->
        IF t \in MembersOf(room)
        THEN Append(box[t], [name |-> name, payload |-> payload])
        ELSE box[t]]

\* socket.join(room): a room holds each socket at most once
\* The members a room has, none for a room that does not exist
Members(rs, room) == IF room \in DOMAIN rs THEN rs[room] ELSE {}

JoinToggles(rs, s, room) ==
    MapSet(rs, room, IF s \in Members(rs, room)
                     THEN Members(rs, room) \ {s}
                     ELSE Members(rs, room) \cup {s})

Join(rs, s, room) ==
    MapSet(rs, room, Members(rs, room) \cup {s})

\* socket.leave(room)
Leave(rs, s, room) ==
    IF room \in DOMAIN rs THEN MapSet(rs, room, rs[room] \ {s}) ELSE rs

\* On disconnect socket.io removes the socket from every room it is in
LeaveIdentityRooms(rs, s) ==
    [r \in DOMAIN rs |-> IF r[1] = "user" THEN rs[r] \ {s} ELSE rs[r]]

LeaveAll(rs, s) ==
    [r \in DOMAIN rs |-> rs[r] \ {s}]

\* app.get('/health'): the connection count of the status query
Health ==
    [status |-> "ok", sockets |-> Cardinality(DOMAIN connectedUsers)]

\* io.on('connection'): a new connection with a fresh socket id
Connect(s) ==
    /\ ~fatal
    /\ s \notin sockets
    /\ s \notin closed
    /\ sockets' = sockets \cup {s}
    /\ UNCHANGED <<clock, closed, connectedUsers, rooms, inbox, emitted, fatal, cacheVars, chatVars,
                   clientVars>>

\* socket.on('authenticate')
Authenticate(s, userId) ==
    /\ ~fatal
    /\ s \in sockets
    /\ connectedUsers' = MapSet(connectedUsers, s, userId)
    /\ rooms' = Join(rooms, s, UserRoom(userId))
    /\ UNCHANGED <<clock, sockets, closed, inbox, emitted, fatal, cacheVars, chatVars,
                   clientVars>>

\* socket.on('chat:send')
ChatSend(s, data) ==
    /\ ~fatal
    /\ s \in sockets
    /\ emitted < MaxEmits
    /\ LET payload == ChatReceivePayload(data, clock)
       IN inbox' = EmitTo(UserRoom(data.receiverId), "chat:receive", payload)
    /\ emitted' = emitted + 1
    /\ UNCHANGED <<clock, sockets, closed, connectedUsers, rooms, fatal, cacheVars, chatVars,
                   clientVars>>

\* socket.on('disconnect'); socket.io has removed the socket from all its rooms.
\* The connection's received events go with it.
Disconnect(s) ==
    /\ ~fatal
    /\ s \in sockets
    /\ sockets' = sockets \ {s}
    /\ closed' = closed \cup {s}
    /\ rooms' = LeaveAll(rooms, s)
    /\ connectedUsers' =
         IF s \in DOMAIN connectedUsers /\ Truthy(connectedUsers[s])
         THEN MapDelete(connectedUsers, s)
         ELSE connectedUsers
    /\ inbox' = [inbox EXCEPT ![s] = << >>]
    /\ UNCHANGED <<clock, emitted, fatal, cacheVars, chatVars,
                   clientVars>>

\* The payloads of the other client events (services/socket 62-120)
Updates == {[status |-> "closed"]}
Notifications == {[title |-> "assigned"]}

\* markChatAsRead(senderId, receiverId)
ChatReadData ==
    {[senderId |-> u, receiverId |-> r] : u \in Users, r \in Users}

\* sendNotification(recipientId, notification)
NotificationSendData ==
    {[recipientId |-> r, notification |-> n] : r \in Users, n \in Notifications}

\* broadcastCaseUpdate(caseId, update, assignedUserId?): None is an assignee
\* that was not passed (undefined)
CaseUpdateData ==
    {[caseId |-> c, update |-> up, assignedUserId |-> a] :
        c \in CaseIds, up \in Updates, a \in Users \cup {None}}

\* socket.on('join:case')
JoinCase(s, caseId) ==
    /\ ~fatal
    /\ s \in sockets
    /\ rooms' = Join(rooms, s, CaseRoom(caseId))
    /\ UNCHANGED <<clock, sockets, closed, connectedUsers, inbox, emitted, fatal, cacheVars, chatVars,
                   clientVars>>

\* socket.on('leave:case')
LeaveCase(s, caseId) ==
    /\ ~fatal
    /\ s \in sockets
    /\ rooms' = Leave(rooms, s, CaseRoom(caseId))
    /\ UNCHANGED <<clock, sockets, closed, connectedUsers, inbox, emitted, fatal, cacheVars, chatVars,
                   clientVars>>

\* server.js 136-138: the chat:read:confirm payload
ChatReadConfirmOfSender(data) ==
    [userId |-> data.senderId]

ChatReadConfirm(data) ==
    [userId |-> data.receiverId]

\* socket.on('chat:read')
ChatRead(s, data) ==
    /\ ~fatal
    /\ s \in sockets
    /\ emitted < MaxEmits
    /\ inbox' = EmitInto(inbox, UserRoom(data.senderId), "chat:read:confirm",
                         ChatReadConfirm(data))
    /\ emitted' = emitted + 1
    /\ UNCHANGED <<clock, sockets, closed, connectedUsers, rooms, fatal, cacheVars, chatVars,
                   clientVars>>

\* socket.on('notification:send')
NotificationSend(s, data) ==
    /\ ~fatal
    /\ s \in sockets
    /\ emitted < MaxEmits
    /\ inbox' = EmitInto(inbox, UserRoom(data.recipientId), "notification:receive",
                         data.notification)
    /\ emitted' = emitted + 1
    /\ UNCHANGED <<clock, sockets, closed, connectedUsers, rooms, fatal, cacheVars, chatVars,
                   clientVars>>

\* server.js 153-158: the rooms a case:update is emitted to, in order
CaseUpdateRoomsCaseOnly(data) ==
    <<CaseRoom(data.caseId)>>

CaseUpdateRooms(data) ==
    IF Truthy(data.assignedUserId)
    THEN <<CaseRoom(data.caseId), UserRoom(data.assignedUserId)>>
    ELSE <<CaseRoom(data.caseId)>>

\* One io.to(room).emit('case:updated', update) per room, one after the other
RECURSIVE EmitToEach(_, _, _, _)
EmitToEach(box, targets, name, payload) ==
    IF targets = << >>
    THEN box
    ELSE EmitToEach(EmitInto(box, Head(targets), name, payload),
                    Tail(targets), name, payload)

\* socket.on('case:update')
CaseUpdate(s, data) ==
    /\ ~fatal
    /\ s \in sockets
    /\ emitted < MaxEmits
    /\ inbox' = EmitToEach(inbox, CaseUpdateRooms(data), "case:updated", data.update)
    /\ emitted' = emitted + 1
    /\ UNCHANGED <<clock, sockets, closed, connectedUsers, rooms, fatal, cacheVars, chatVars,
                   clientVars>>

\* The handlers that read fields of their argument: const { ... } = data throws
\* a TypeError when the event came without a payload
Destructured == {"chat:send", "chat:read", "notification:send", "case:update"}

EventNames == {"authenticate", "join:case", "leave:case"} \cup Destructured

\* An event that arrives without a payload (undefined). The TypeError of a
\* destructuring handler is caught nowhere and ends the process.
NoPayload(s, name) ==
    \/ /\ name = "authenticate"
       /\ Authenticate(s, None)
    \/ /\ name = "join:case"
       /\ JoinCase(s, None)
    \/ /\ name = "leave:case"
       /\ LeaveCase(s, None)
    \/ /\ name \in Destructured
       /\ ~fatal
       /\ s \in sockets
       /\ fatal' = TRUE
       /\ UNCHANGED <<clock, sockets, closed, connectedUsers, rooms, inbox, emitted,
                      cacheVars, chatVars, clientVars>>

\* One millisecond passes
Tick ==
    /\ clock < MaxTick
    /\ clock' = clock + 1
    /\ UNCHANGED <<serverVars, cacheVars, chatVars, clientVars>>

ServerInit ==
    /\ sockets = {}
    /\ closed = {}
    /\ connectedUsers = EmptyMap
    /\ rooms = [r \in RoomNames |-> {}]
    /\ inbox = [t \in SocketIds |-> << >>]
    /\ emitted = 0
    /\ fatal = FALSE

----------------------------------------------------------------------------
(* Response cache *)

CACHE_TTL == 30 * 1000

\* Request identities (req.originalUrl: path + query) and the ones a route serves
Keys == {"/api/cases", "/api/cases?page=2", "/api/missing"}
Routed == {"/api/cases", "/api/cases?page=2"}
Methods == {"GET", "POST"}

\* The instants at which requests arrive, in ms
Instants == {0, 1000, 29000, 30000, 31000, 60000, 61000}
MaxRequests == 3

\* The identities that send requests (the bearer of the request's token)
Requesters == Users

\* A route's successful answer: res.json(data) computed from the durable store
RouteData(key, version) ==
    [success |-> TRUE, key |-> key, version |-> version]

\* server.js 202-210: the 404 handler's body
NotFoundBody ==
    [success |-> FALSE, key |-> "NOT_FOUND", version |-> 0]

\* server.js 27: an entry is served while now - timestamp < CACHE_TTL
IsFreshInclusive(entry, now) ==
    now - entry.timestamp <= CACHE_TTL

IsFresh(entry, now) ==
    now - entry.timestamp < CACHE_TTL

\* server.js 22-24: a request that is not a GET goes straight to next()
SkipsCacheNever(method) ==
    FALSE

SkipsCache(method) ==
    method # "GET"

\* What the chain behind the middleware answers: the route's res.json(data), or,
\* when no route matches, the 404 handler's res.status(404).json(...)
HandlerStatus(key) == IF key \in Routed THEN 200 ELSE 404

HandlerBody(method, key, version) ==
    IF key \in Routed THEN RouteData(key, version) ELSE NotFoundBody

\* server.js 33-36: the overridden res.json stores whatever body it is given
JsonOverride(c, key, status, data, now) ==
    MapSet(c, key, [data |-> data, timestamp |-> now])

\* app.use('/api', cacheMiddleware, routes) followed by the 404 handler
Request(method, key) ==
    /\ requests < MaxRequests
    /\ requests' = requests + 1
    /\ \E who \in Requesters :
        IF SkipsCache(method)
        THEN \* line 22: passed on; a write by a route changes the durable store
             /\ store' = IF key \in Routed THEN store + 1 ELSE store
             /\ last' = [method |-> method, key |-> key, handlerRan |-> TRUE,
                         status |-> HandlerStatus(key),
                         body |-> HandlerBody(method, key, store'), by |-> who]
             /\ UNCHANGED <<cache, computedFor>>
        ELSE IF key \in DOMAIN cache /\ IsFresh(cache[key], clock)
        THEN \* line 28: answered from the cache
             /\ last' = [method |-> method, key |-> key, handlerRan |-> FALSE,
                         status |-> 200, body |-> cache[key].data, by |-> who]
             /\ UNCHANGED <<cache, store, computedFor>>
        ELSE \* lines 32-38: res.json overridden, then next()
             /\ last' = [method |-> method, key |-> key, handlerRan |-> TRUE,
                         status |-> HandlerStatus(key),
                         body |-> HandlerBody(method, key, store), by |-> who]
             /\ cache' = JsonOverride(cache, key, HandlerStatus(key),
                                      HandlerBody(method, key, store), clock)
             /\ computedFor' = MapSet(computedFor, key, who)
             /\ store' = store
    /\ UNCHANGED <<clock, serverVars, chatVars, clientVars>>

\* Before the first request no response has been sent
NoResponse ==
    [method |-> "none", key |-> "none", handlerRan |-> FALSE, status |-> 0,
     body |-> [success |-> TRUE, key |-> "none", version |-> 0], by |-> None]

\* Time passes to a later instant
Elapse(t) ==
    /\ t > clock
    /\ clock' = t
    /\ UNCHANGED <<serverVars, cacheVars, chatVars, clientVars>>

CacheInit ==
    /\ cache = EmptyMap
    /\ store = 0
    /\ requests = 0
    /\ last = NoResponse
    /\ computedFor = EmptyMap

CacheNext ==
    \/ \E m \in Methods, k \in Keys : Request(m, k)
    \/ \E t \in Instants : Elapse(t)

----------------------------------------------------------------------------
(* Client chat layer: ChatProvider *)

\* The logged-in user (user.staffId) and the counterparts
Me == "A"
Peers == {"B", "C"}
ChatBodies == {"hi", "yo"}
SendBodies == {"hi"}
EventTimes == {1, 2}
MaxOps == 3

\* The chat:receive events this client can be handed: what the server emits for
\* a chat:send of a counterpart. Date.now() is a wall clock, and the durable
\* store's answers travel on another channel, so nothing orders the timestamps
\* a client sees.
ChatEvents ==
    {ChatReceivePayload([receiverId |-> Me, senderId |-> u,
                         senderName |-> NameOf(u), message |-> b], t) :
        u \in Peers, b \in ChatBodies, t \in EventTimes}

\* The event object as a ChatMessage: the payload has no receiverId and no
\* receiverName, reading them yields undefined
AsChatMessage(e) ==
    [id |-> e.id, senderId |-> e.senderId, senderName |-> e.senderName,
     receiverId |-> None, receiverName |-> None, message |-> e.message,
     timestamp |-> e.timestamp, read |-> e.read]

Ids(msgs) == {msgs[i].id : i \in 1..Len(msgs)}

\* staff.find(s => s.id === senderId)?.role || 'Unknown'
StaffRole(userId) == <<"role", userId>>

\* Array.prototype.sort((a, b) => time(b) - time(a)): stable, newest first
RECURSIVE InsertDesc(_, _)
InsertDesc(sorted, c) ==
    IF sorted = << >> THEN <<c>>
    ELSE IF Head(sorted).lastMessageTime >= c.lastMessageTime
         THEN <<Head(sorted)>> \o InsertDesc(Tail(sorted), c)
         ELSE <<c>> \o sorted

RECURSIVE SortDesc(_)
SortDesc(convs) ==
    IF convs = << >> THEN << >>
    ELSE InsertDesc(SortDesc(SubSeq(convs, 1, Len(convs) - 1)), convs[Len(convs)])

HasConversation(convs, userId) ==
    \E i \in 1..Len(convs) : convs[i].userId = userId

\* ChatContext 353-357: setMessages in the chat:receive listener
ReceiveMessages(prev, message) ==
    IF message.id \in Ids(prev) THEN prev ELSE Append(prev, message)

\* ChatContext 360-384: setConversations in the chat:receive listener
ReceiveConversations(prev, message) ==
    IF HasConversation(prev, message.senderId)
    THEN SortDesc([i \in 1..Len(prev) |->
            IF prev[i].userId = message.senderId
            THEN [prev[i] EXCEPT
                    !.lastMessage = message.message,
                    !.lastMessageTime = message.timestamp,
                    !.unreadCount = IF message.read THEN @ ELSE @ + 1]
            ELSE prev[i]])
    ELSE <<[userId          |-> message.senderId,
            userName        |-> message.senderName,
            userRole        |-> StaffRole(message.senderId),
            lastMessage     |-> message.message,
            lastMessageTime |-> message.timestamp,
            unreadCount     |-> 1]>> \o prev

\* ChatContext 386-389: the total unread counter
ReceiveUnread(prev, message) ==
    IF ~message.read /\ message.receiverId = Me THEN prev + 1 ELSE prev

\* ChatContext 349-390: the onChatMessage listener
Receive(e) ==
    /\ ops < MaxOps
    /\ ops' = ops + 1
    /\ LET message == AsChatMessage(e)
       IN /\ messages' = ReceiveMessages(messages, message)
          /\ conversations' = ReceiveConversations(conversations, message)
          /\ unreadCount' = ReceiveUnread(unreadCount, message)
    /\ UNCHANGED <<clock, serverVars, cacheVars, clientVars, send, mark, db, sentLog, toasts,
                   consoleErrors>>

\* The number of entries of the local list that are the message of a send
OwnCopies(msgs, receiverId, body) ==
    Cardinality({i \in 1..Len(msgs) :
        /\ msgs[i].senderId = Me
        /\ msgs[i].receiverId = receiverId
        /\ msgs[i].message = body})

\* ChatContext 398-406: sendMessage up to the await. The chat:send event goes
\* out over the socket and chatApi.sendMessage is issued; local state is as it was.
SendStart(receiverId, body) ==
    /\ send.pc # "awaiting"
    /\ ops < MaxOps
    /\ ops' = ops + 1
    /\ send' = [pc |-> "awaiting", receiverId |-> receiverId,
                receiverName |-> NameOf(receiverId), message |-> body,
                before |-> OwnCopies(messages, receiverId, body),
                toastsBefore |-> toasts]
    /\ UNCHANGED <<clock, serverVars, cacheVars, clientVars, messages, conversations,
                   unreadCount, mark, db, sentLog, toasts, consoleErrors>>

\* ChatContext 410-419: the message built once the durable store has answered
NewMessage(call, now) ==
    [id |-> <<"msg", now>>, senderId |-> Me, senderName |-> NameOf(Me),
     receiverId |-> call.receiverId, receiverName |-> call.receiverName,
     message |-> call.message, timestamp |-> now, read |-> FALSE]

\* ChatContext 423-433: setConversations after a send
SentConversations(prev, newMessage) ==
    IF HasConversation(prev, newMessage.receiverId)
    THEN SortDesc([i \in 1..Len(prev) |->
            IF prev[i].userId = newMessage.receiverId
            THEN [prev[i] EXCEPT
                    !.lastMessage = newMessage.message,
                    !.lastMessageTime = newMessage.timestamp]
            ELSE prev[i]])
    ELSE prev

\* The record the durable store keeps for a sent message, under its own id
StoredMessage(call, n, now) ==
    [id |-> <<"db", n>>, senderId |-> Me, senderName |-> NameOf(Me),
     receiverId |-> call.receiverId, receiverName |-> call.receiverName,
     message |-> call.message, timestamp |-> now, read |-> FALSE]

\* ChatContext 408-434: response.success
SendSucceeds ==
    /\ send.pc = "awaiting"
    /\ LET newMessage == NewMessage(send, clock)
           stored == StoredMessage(send, Len(db) + 1, clock)
       IN /\ messages' = Append(messages, newMessage)
          /\ conversations' = SentConversations(conversations, newMessage)
          /\ db' = Append(db, stored)
          /\ sentLog' = Append(sentLog, [temp |-> newMessage.id, canonical |-> stored.id])
    /\ send' = [send EXCEPT !.pc = "succeeded"]
    /\ UNCHANGED <<clock, serverVars, cacheVars, clientVars, unreadCount, mark, toasts,
                   consoleErrors, ops>>

\* ChatContext 435-437: chatApi.sendMessage rejects; the catch block logs
SendFails ==
    /\ send.pc = "awaiting"
    /\ consoleErrors' = consoleErrors + 1
    /\ send' = [send EXCEPT !.pc = "failed"]
    /\ UNCHANGED <<clock, serverVars, cacheVars, clientVars, messages, conversations,
                   unreadCount, mark, db, sentLog, toasts, ops>>

\* ChatContext 408: the store answers without success; nothing else happens
SendRejected ==
    /\ send.pc = "awaiting"
    /\ send' = [send EXCEPT !.pc = "failed"]
    /\ UNCHANGED <<clock, serverVars, cacheVars, clientVars, messages, conversations,
                   unreadCount, mark, db, sentLog, toasts, consoleErrors, ops>>

\* conversations.find(c => c.userId === userId)?.unreadCount || 0
UnreadOf(convs, userId) ==
    IF HasConversation(convs, userId)
    THEN convs[CHOOSE i \in 1..Len(convs) :
                 /\ convs[i].userId = userId
                 /\ \A j \in 1..(i - 1) : convs[j].userId # userId].unreadCount
    ELSE 0

\* ChatContext 441-449: markAsRead up to the await. The function closes over the
\* conversations of the render it was created in.
MarkStart(userId) ==
    /\ mark.pc # "awaiting"
    /\ ops < MaxOps
    /\ ops' = ops + 1
    /\ mark' = [pc |-> "awaiting", userId |-> userId,
                closureUnread |-> UnreadOf(conversations, userId)]
    /\ UNCHANGED <<clock, serverVars, cacheVars, clientVars, messages, conversations,
                   unreadCount, send, db, sentLog, toasts, consoleErrors>>

\* ChatContext 452-455: setMessages in markAsRead
ReadMessages(prev, userId) ==
    [i \in 1..Len(prev) |->
        IF prev[i].senderId = userId /\ prev[i].receiverId = Me /\ ~prev[i].read
        THEN [prev[i] EXCEPT !.read = TRUE]
        ELSE prev[i]]

\* ChatContext 458-461: setConversations in markAsRead
ReadConversations(prev, userId) ==
    [i \in 1..Len(prev) |->
        IF prev[i].userId = userId THEN [prev[i] EXCEPT !.unreadCount = 0]
        ELSE prev[i]]

\* ChatContext 464: Math.max(0, prev - closure's unreadCount of the conversation)
ReadUnread(prev, closureUnread) ==
    IF prev - closureUnread > 0 THEN prev - closureUnread ELSE 0

\* ChatContext 451-464: chatApi.markAsRead has resolved
MarkSucceeds ==
    /\ mark.pc = "awaiting"
    /\ messages' = ReadMessages(messages, mark.userId)
    /\ conversations' = ReadConversations(conversations, mark.userId)
    /\ unreadCount' = ReadUnread(unreadCount, mark.closureUnread)
    /\ mark' = [mark EXCEPT !.pc = "succeeded"]
    /\ UNCHANGED <<clock, serverVars, cacheVars, clientVars, send, db, sentLog, toasts,
                   consoleErrors, ops>>

\* ChatContext 465-467: chatApi.markAsRead rejects; the catch block logs
MarkFails ==
    /\ mark.pc = "awaiting"
    /\ consoleErrors' = consoleErrors + 1
    /\ mark' = [mark EXCEPT !.pc = "failed"]
    /\ UNCHANGED <<clock, serverVars, cacheVars, clientVars, messages, conversations,
                   unreadCount, send, db, sentLog, toasts, ops>>

\* The socket events the provider registers a listener for (ChatContext 349:
\* onChatMessage; SocketProvider offers onChatMessage, onNotification and
\* onCaseUpdate and nothing for chat:read:confirm)
ProviderEvents == {"chat:receive"}

\* A chat:read:confirm {userId} event arrives on the client's socket: the
\* listeners registered for that event name are invoked, and there is none
ReadConfirm(userId) ==
    /\ ops < MaxOps
    /\ ops' = ops + 1
    /\ "chat:read:confirm" \notin ProviderEvents
    /\ UNCHANGED <<clock, serverVars, cacheVars, clientVars, messages, conversations,
                   unreadCount, send, mark, db, sentLog, toasts, consoleErrors>>

\* The durable store's messages of the conversation with userId
ApiMessages(userId) ==
    SelectSeq(db, LAMBDA m :
        \/ m.senderId = Me /\ m.receiverId = userId
        \/ m.senderId = userId /\ m.receiverId = Me)

\* ChatContext 478-483: setMessages in getConversationMessages
MergeMessages(prev, apiMessages) ==
    prev \o SelectSeq(apiMessages, LAMBDA m : m.id \notin Ids(prev))

\* ChatContext 471-485: getConversationMessages, the store has answered
GetConversationMessages(userId) ==
    /\ messages' = MergeMessages(messages, ApiMessages(userId))
    /\ UNCHANGED <<clock, serverVars, cacheVars, clientVars, conversations, unreadCount, send,
                   mark, db, sentLog, toasts, consoleErrors, ops>>

\* No sendMessage / markAsRead call has been made yet
IdleSend ==
    [pc |-> "idle", receiverId |-> None, receiverName |-> None, message |-> None,
     before |-> 0, toastsBefore |-> 0]

IdleMark ==
    [pc |-> "idle", userId |-> None, closureUnread |-> 0]

ChatInit ==
    /\ messages = << >>
    /\ conversations = << >>
    /\ unreadCount = 0
    /\ send = IdleSend
    /\ mark = IdleMark
    /\ db = << >>
    /\ sentLog = << >>
    /\ toasts = 0
    /\ consoleErrors = 0
    /\ ops = 0

ChatNext ==
    \/ \E e \in ChatEvents : Receive(e)
    \/ \E r \in Peers, b \in SendBodies : SendStart(r, b)
    \/ SendSucceeds
    \/ SendFails
    \/ SendRejected
    \/ \E u \in Peers : MarkStart(u)
    \/ MarkSucceeds
    \/ MarkFails
    \/ \E u \in Peers : GetConversationMessages(u)
    \/ \E u \in Peers : ReadConfirm(u)
    \/ Tick

----------------------------------------------------------------------------
(* One client's socket link: services/socket (getSocket, the emit helpers),  *)
(* SocketProvider's effects and ChatProvider's loadChatData effect, with the *)
(* server's side of that client's connection.                                *)

\* services/socket 21: reconnectionAttempts
reconnectionAttempts == 5

\* The socket ids the server gives the client's connections, and the
\* connection of another user that publishes events
ClientSids == {"s1", "s2"}
PeerSocket == "s3"
MaxBuffered == 2

Packet(name, arg) == [name |-> name, arg |-> arg]

\* socket.emit(name, arg) of socket.io-client: written to the transport when
\* connected, kept in the send buffer otherwise
EmitWire(name, arg) ==
    IF link = "connected" THEN Append(wire, Packet(name, arg)) ELSE wire

EmitBuffer(name, arg) ==
    IF link = "connected" THEN sendBuffer ELSE Append(sendBuffer, Packet(name, arg))

CanEmit == Len(sendBuffer) + Len(wire) < MaxBuffered

----------------------------------------------------------------------------
(* The client socket's listeners: SocketProvider's onChatMessage,
   onNotification and onCaseUpdate register a callback with socket.on and
   return a function that removes it with socket.off. *)

MaxCallbacks == 3

\* Callbacks are numbered from 1 in the order they are created
NoCallback == 0

ListenerEvents == {"chat:receive", "notification:receive", "case:updated"}

\* The events a mounted component, not ChatProvider, subscribes to
ComponentEvents == ListenerEvents \ ProviderEvents

\* socket.on(name, cb)
On(ls, name, cb) == [ls EXCEPT ![name] = Append(@, cb)]

\* The list without the first occurrence of cb
RECURSIVE Without(_, _)
Without(cbs, cb) ==
    IF cbs = << >> THEN << >>
    ELSE IF Head(cbs) = cb THEN Tail(cbs)
    ELSE <<Head(cbs)>> \o Without(Tail(cbs), cb)

OffKeeps(ls, name, cb) ==
    ls

\* socket.off(name, cb)
Off(ls, name, cb) ==
    [ls EXCEPT ![name] = Without(@, cb)]

\* useAuth gives a user: the authenticate effect emits, loadChatData starts and
\* ChatProvider's listener effect subscribes to chat:receive
Login ==
    /\ user = None
    /\ CanEmit
    /\ user' = Me
    /\ wire' = EmitWire("authenticate", Me)
    /\ sendBuffer' = EmitBuffer("authenticate", Me)
    /\ load' = "awaiting"
    /\ gen < MaxCallbacks
    /\ gen' = gen + 1
    /\ listeners' = On(listeners, "chat:receive", gen + 1)
    /\ held' = [held EXCEPT !["chat:receive"] = gen + 1]
    /\ UNCHANGED <<clock, invoked, queryVars, serverVars, cacheVars, uiVars, chatVars, link,
                   attempts, isConnected, sid, missed, viewing>>

\* ChatContext 325-336: both fetches of loadChatData have resolved
LoadResolves ==
    /\ load = "awaiting"
    /\ load' = "done"
    /\ missed' = FALSE
    /\ UNCHANGED <<clock, listenerVars, queryVars, serverVars, cacheVars, uiVars, chatVars, user, link, attempts,
                   isConnected, sid, sendBuffer, wire, viewing>>

\* ChatContext 337-339: a fetch of loadChatData rejects
LoadFails ==
    /\ load = "awaiting"
    /\ load' = "failed"
    /\ UNCHANGED <<clock, listenerVars, queryVars, serverVars, cacheVars, uiVars, chatVars, user, link, attempts,
                   isConnected, sid, sendBuffer, wire, missed, viewing>>

\* A viewing component mounts and calls joinCase(caseId)
ViewCase(caseId) ==
    /\ viewing = None
    /\ CanEmit
    /\ viewing' = caseId
    /\ wire' = EmitWire("join:case", caseId)
    /\ sendBuffer' = EmitBuffer("join:case", caseId)
    /\ UNCHANGED <<clock, listenerVars, queryVars, serverVars, cacheVars, uiVars, chatVars, user, link, attempts,
                   isConnected, sid, load, missed>>

\* The viewing component unmounts and calls leaveCase(caseId)
StopViewing ==
    /\ viewing # None
    /\ CanEmit
    /\ viewing' = None
    /\ wire' = EmitWire("leave:case", viewing)
    /\ sendBuffer' = EmitBuffer("leave:case", viewing)
    /\ UNCHANGED <<clock, listenerVars, queryVars, serverVars, cacheVars, uiVars, chatVars, user, link, attempts,
                   isConnected, sid, load, missed>>

\* The transport opens: the server sees a new connection with a fresh socket
\* id, the client's 'connect' listeners run (setIsConnected(true)) and the
\* send buffer is flushed to the transport
Established(s) ==
    /\ ~fatal
    /\ s \notin sockets
    /\ s \notin closed
    /\ sockets' = sockets \cup {s}
    /\ sid' = s
    /\ link' = "connected"
    /\ isConnected' = TRUE
    /\ wire' = sendBuffer
    /\ sendBuffer' = << >>
    /\ UNCHANGED <<clock, listenerVars, queryVars, closed, connectedUsers, rooms, inbox, emitted, fatal,
                   cacheVars, uiVars, chatVars, user, attempts, load, missed, viewing>>

\* getSocket(): io(SOCKET_URL, ...) connects for the first time
ConnectSucceeds(s) ==
    /\ link = "connecting"
    /\ Established(s)

\* The first connection attempt fails (connect_error): the manager starts to
\* reconnect
ConnectFails ==
    /\ link = "connecting"
    /\ link' = "reconnecting"
    /\ UNCHANGED <<clock, listenerVars, queryVars, serverVars, cacheVars, uiVars, chatVars, user, attempts,
                   isConnected, sid, sendBuffer, wire, load, missed, viewing>>

\* The transport is lost: the client's 'disconnect' listeners run
\* (setIsConnected(false)), what was on the transport is gone, the manager
\* starts to reconnect; the server runs its disconnect handler for the socket
Lose ==
    /\ link = "connected"
    /\ link' = "reconnecting"
    /\ attempts' = 0
    /\ isConnected' = FALSE
    /\ sid' = None
    /\ wire' = << >>
    /\ sockets' = sockets \ {sid}
    /\ closed' = closed \cup {sid}
    /\ rooms' = LeaveAll(rooms, sid)
    /\ connectedUsers' =
         IF sid \in DOMAIN connectedUsers /\ Truthy(connectedUsers[sid])
         THEN MapDelete(connectedUsers, sid)
         ELSE connectedUsers
    /\ inbox' = [inbox EXCEPT ![sid] = << >>]
    /\ UNCHANGED <<clock, listenerVars, queryVars, emitted, fatal, cacheVars, uiVars, chatVars, user, sendBuffer,
                   load, missed, viewing>>

\* reconnectionAttempts: 5. One automatic attempt fails
AttemptsLeftAlways ==
    TRUE

AttemptsLeft ==
    attempts < reconnectionAttempts

AttemptFails ==
    /\ link = "reconnecting"
    /\ AttemptsLeft
    /\ attempts' = attempts + 1
    /\ UNCHANGED <<clock, listenerVars, queryVars, serverVars, cacheVars, uiVars, chatVars, user, link, isConnected,
                   sid, sendBuffer, wire, load, missed, viewing>>

\* No attempt is left: the manager stops (services/socket 43-45 logs
\* reconnect_failed)
GiveUp ==
    /\ link = "reconnecting"
    /\ ~AttemptsLeft
    /\ link' = "failed"
    /\ UNCHANGED <<clock, listenerVars, queryVars, serverVars, cacheVars, uiVars, chatVars, user, attempts,
                   isConnected, sid, sendBuffer, wire, load, missed, viewing>>

\* One automatic attempt succeeds
AttemptSucceeds(s) ==
    /\ link = "reconnecting"
    /\ AttemptsLeft
    /\ Established(s)

\* What the server's handler of a client packet does to the rooms
\* (server.js 98-114)
HandledRoomsRestoring(rs, s, p) ==
    IF p.name = "authenticate"
    THEN IF viewing = None
         THEN Join(rs, s, UserRoom(p.arg))
         ELSE Join(Join(rs, s, UserRoom(p.arg)), s, CaseRoom(viewing))
    ELSE IF p.name = "join:case" THEN Join(rs, s, CaseRoom(p.arg))
    ELSE Leave(rs, s, CaseRoom(p.arg))

HandledRooms(rs, s, p) ==
    IF p.name = "authenticate" THEN Join(rs, s, UserRoom(p.arg))
    ELSE IF p.name = "join:case" THEN Join(rs, s, CaseRoom(p.arg))
    ELSE Leave(rs, s, CaseRoom(p.arg))

\* The server handles the next packet of the client's connection
Deliver ==
    /\ ~fatal
    /\ link = "connected"
    /\ wire # << >>
    /\ LET p == Head(wire)
       IN /\ rooms' = HandledRooms(rooms, sid, p)
          /\ connectedUsers' = IF p.name = "authenticate"
                               THEN MapSet(connectedUsers, sid, p.arg)
                               ELSE connectedUsers
    /\ wire' = Tail(wire)
    /\ UNCHANGED <<clock, listenerVars, queryVars, sockets, closed, inbox, emitted, fatal, cacheVars, uiVars,
                   chatVars, user, link, attempts, isConnected, sid, sendBuffer,
                   load, missed, viewing>>

\* The chat:send payloads another user addresses to the client's user
PeerChatData ==
    {d \in ChatSendData : d.receiverId = Me /\ d.senderId # Me}

\* socket.on('chat:send') for a chat:send of the other user's connection
PeerChatSend(data) ==
    /\ ~fatal
    /\ PeerSocket \in sockets
    /\ emitted < MaxEmits
    /\ inbox' = EmitTo(UserRoom(data.receiverId), "chat:receive",
                       ChatReceivePayload(data, clock))
    /\ emitted' = emitted + 1
    /\ missed' = (missed \/ (/\ link \in {"reconnecting", "failed"}
                              /\ closed \cap ClientSids # {}))
    /\ UNCHANGED <<clock, listenerVars, queryVars, sockets, closed, connectedUsers, rooms, fatal, cacheVars, uiVars,
                   chatVars, user, link, attempts, isConnected, sid, sendBuffer,
                   wire, load, viewing>>

----------------------------------------------------------------------------
(* Subscribing, unsubscribing and dispatching on the client socket *)

\* useAuth gives no user any more: the cleanup of ChatProvider's listener effect
\* unsubscribes, and the effect returns early without a user
Logout ==
    /\ user # None
    /\ user' = None
    /\ load' = "idle"
    /\ listeners' = Off(listeners, "chat:receive", held["chat:receive"])
    /\ held' = [held EXCEPT !["chat:receive"] = NoCallback]
    /\ UNCHANGED <<clock, gen, invoked, queryVars, serverVars, cacheVars, uiVars, chatVars,
                   link, attempts, isConnected, sid, sendBuffer, wire, missed,
                   viewing>>

\* A dependency of ChatProvider's listener effect changes: the cleanup
\* unsubscribes the old callback, the effect subscribes a new one
Resubscribe ==
    /\ user # None
    /\ gen < MaxCallbacks
    /\ gen' = gen + 1
    /\ listeners' = On(Off(listeners, "chat:receive", held["chat:receive"]),
                       "chat:receive", gen + 1)
    /\ held' = [held EXCEPT !["chat:receive"] = gen + 1]
    /\ UNCHANGED <<clock, invoked, queryVars, serverVars, cacheVars, uiVars, chatVars,
                   linkVars>>

\* A component subscribes with onNotification or onCaseUpdate
Subscribe(name) ==
    /\ held[name] = NoCallback
    /\ gen < MaxCallbacks
    /\ gen' = gen + 1
    /\ listeners' = On(listeners, name, gen + 1)
    /\ held' = [held EXCEPT ![name] = gen + 1]
    /\ UNCHANGED <<clock, invoked, queryVars, serverVars, cacheVars, uiVars, chatVars,
                   linkVars>>

\* The function a subscription returned is called, perhaps once more
Unsubscribe(name, cb) ==
    /\ cb \in 1..gen
    /\ listeners' = Off(listeners, name, cb)
    /\ held' = [held EXCEPT ![name] = IF @ = cb THEN NoCallback ELSE @]
    /\ UNCHANGED <<clock, gen, invoked, queryVars, serverVars, cacheVars, uiVars, chatVars,
                   linkVars>>

\* An event arrives on the client socket: its listeners are called in order
Dispatch(name) ==
    /\ invoked' = listeners[name]
    /\ UNCHANGED <<clock, listeners, held, gen, queryVars, serverVars, cacheVars, uiVars,
                   chatVars, linkVars>>

ListenerInit ==
    /\ listeners = [name \in ListenerEvents |-> << >>]
    /\ held = [name \in ListenerEvents |-> NoCallback]
    /\ gen = 0
    /\ invoked = << >>

ListenerNext ==
    \/ Login
    \/ Logout
    \/ Resubscribe
    \/ \E name \in ComponentEvents : Subscribe(name)
    \/ \E name \in ComponentEvents, cb \in 1..MaxCallbacks : Unsubscribe(name, cb)
    \/ \E name \in ListenerEvents : Dispatch(name)

----------------------------------------------------------------------------
(* One query of the entity cache under queryClient's default options *)

\* queryClient 38: staleTime, 40: gcTime
staleTime == 300000
gcTime == 600000

MaxObservers == 2

NoEntry == [updatedAt |-> -1]

QueryInstants == {0, 240000, 300000, 600000, 660000, 900000, 960000}

\* The entry is past its freshness window
IsStale(now) == now - qEntry.updatedAt >= staleTime

GcDueRegardlessOfUse(now) ==
    /\ qEntry # NoEntry
    /\ now - qEntry.updatedAt >= gcTime

\* The garbage collection timer of an entry nobody observes has run out
GcDue(now) ==
    /\ qEntry # NoEntry
    /\ qObservers = 0
    /\ ~qFetching
    /\ now - qInactiveSince >= gcTime

\* A component that uses the query mounts: it is given the cached entry if
\* there is one, and a fetch starts if there is none or it is stale
Mount ==
    /\ qObservers < MaxObservers
    /\ qObservers' = qObservers + 1
    /\ LET refetch == qEntry = NoEntry \/ IsStale(clock)
       IN  /\ qServed' = [cached |-> qEntry # NoEntry, fetch |-> refetch]
           /\ qFetching' = (qFetching \/ refetch)
    /\ UNCHANGED <<clock, qEntry, qInactiveSince, serverVars, cacheVars, uiVars, chatVars, linkVars,
                   listenerVars>>

\* A component that uses the query unmounts; the last one starts the
\* garbage collection timer
Unmount ==
    /\ qObservers > 0
    /\ qObservers' = qObservers - 1
    /\ qInactiveSince' = IF qObservers = 1 THEN clock ELSE qInactiveSince
    /\ UNCHANGED <<clock, qEntry, qFetching, qServed, serverVars, cacheVars, uiVars,
                   chatVars, linkVars, listenerVars>>

\* The fetch in flight resolves
FetchResolves ==
    /\ qFetching
    /\ qFetching' = FALSE
    /\ qEntry' = [updatedAt |-> clock]
    /\ qInactiveSince' = IF qObservers = 0 THEN clock ELSE qInactiveSince
    /\ UNCHANGED <<clock, qObservers, qServed, serverVars, cacheVars, uiVars, chatVars,
                   linkVars, listenerVars>>

\* Time passes to the instant t; an entry whose timer has run out is removed
QueryElapse(t) ==
    /\ t > clock
    /\ clock' = t
    /\ qEntry' = IF GcDue(t) THEN NoEntry ELSE qEntry
    /\ UNCHANGED <<qObservers, qFetching, qInactiveSince, qServed, serverVars,
                   cacheVars, uiVars, chatVars, linkVars, listenerVars>>

QueryInit ==
    /\ qEntry = NoEntry
    /\ qObservers = 0
    /\ qFetching = FALSE
    /\ qInactiveSince = 0
    /\ qServed = [cached |-> FALSE, fetch |-> FALSE]

QueryNext ==
    \/ Mount
    \/ Unmount
    \/ FetchResolves
    \/ \E t \in QueryInstants : QueryElapse(t)

----------------------------------------------------------------------------
(* ChatProvider's computedConversations *)

\* ChatContext 506-508: the other party of a message and its name
Counterpart(msg) ==
    IF msg.senderId = Me THEN msg.receiverId ELSE msg.senderId

CounterpartName(msg) ==
    IF msg.senderId = Me THEN msg.receiverName ELSE msg.senderName

NewerThanAlways(msg, conv) ==
    TRUE

\* ChatContext 525: new Date(msg.timestamp) > new Date(conv.lastMessageTime)
NewerThan(msg, conv) ==
    msg.timestamp > conv.lastMessageTime

\* ChatContext 513-522: the summary a counterpart's first message creates
FirstSummary(msg) ==
    [userId          |-> Counterpart(msg),
     userName        |-> CounterpartName(msg),
     userRole        |-> StaffRole(Counterpart(msg)),
     lastMessage     |-> msg.message,
     lastMessageTime |-> msg.timestamp,
     unreadCount     |-> 0]

\* ChatContext 505-533: one iteration of messages.forEach; the Map is kept as
\* the list of its values in insertion order
FoldMessage(map, msg) ==
    LET withConv == IF HasConversation(map, Counterpart(msg))
                    THEN map
                    ELSE Append(map, FirstSummary(msg))
    IN [i \in 1..Len(withConv) |->
          IF withConv[i].userId = Counterpart(msg)
          THEN LET conv == withConv[i]
                   latest == IF NewerThan(msg, conv)
                             THEN [conv EXCEPT !.lastMessage = msg.message,
                                               !.lastMessageTime = msg.timestamp]
                             ELSE conv
               IN [latest EXCEPT !.unreadCount =
                      IF msg.receiverId = Me /\ ~msg.read THEN @ + 1 ELSE @]
          ELSE withConv[i]]

RECURSIVE ConversationMap(_)
ConversationMap(msgs) ==
    IF msgs = << >> THEN << >>
    ELSE FoldMessage(ConversationMap(SubSeq(msgs, 1, Len(msgs) - 1)),
                     msgs[Len(msgs)])

\* ChatContext 495-535: the conversations the provider exposes
ComputedConversations(msgs, convs) ==
    IF Len(convs) > 0 THEN convs ELSE SortDesc(ConversationMap(msgs))

MaxLocal == 2

\* The messages a local list holds while no summary was loaded or built from
\* an event: sent ones and ones merged from the durable store
LocalMessages ==
    {[id |-> None, senderId |-> x.from, senderName |-> NameOf(x.from),
      receiverId |-> x.to, receiverName |-> NameOf(x.to), message |-> b,
      timestamp |-> ts, read |-> r] :
        x \in {[from |-> Me, to |-> u] : u \in Peers}
              \cup {[from |-> u, to |-> Me] : u \in Peers},
        b \in ChatBodies, ts \in EventTimes, r \in BOOLEAN}

\* The lists of n such messages, each with an id of its own
LocalLists(n) ==
    {[i \in 1..n |-> [f[i] EXCEPT !.id = <<"db", i>>]] : f \in [1..n -> LocalMessages]}

\* The useMemo callback runs on the local list
Compute ==
    /\ computed' = ComputedConversations(local, << >>)
    /\ UNCHANGED <<clock, local, toastVars, handled, serverVars, cacheVars,
                   chatVars, linkVars, listenerVars, queryVars>>

----------------------------------------------------------------------------
(* Toasts: useToast and ToastItem *)

MaxToasts == 2

\* useToast 52: the default duration; Toast.tsx 72: the exit animation's delay
DefaultDuration == 5000
ExitDelay == 300

Durations == {1000, DefaultDuration}
ToastMessages == {"Saved"}
ToastInstants == {0, 1000, 5000}

\* useToast 53: `toast-${Date.now()}-${toastIdRef.current++}`
ToastId(now, n) == <<"toast", now, n>>

ToastIds(ts) == {ts[i].id : i \in 1..Len(ts)}

RemoveToastKeeps(ts, id) ==
    ts

\* useToast 46-50: removeToast
RemoveToast(ts, id) ==
    SelectSeq(ts, LAMBDA x : x.id # id)

\* useToast 52-65: addToast appends the toast and starts its auto-remove timer
AddToast(message, type, duration) ==
    /\ toastIdRef < MaxToasts
    /\ toastIdRef' = toastIdRef + 1
    /\ toastList' = Append(toastList, [id |-> ToastId(clock, toastIdRef),
                                       message |-> message, type |-> type,
                                       duration |-> duration])
    /\ toastTimers' = toastTimers
                        \cup {[id |-> ToastId(clock, toastIdRef), due |-> clock + duration]}

\* A caller shows a toast
Show(message, type, duration) ==
    /\ AddToast(message, type, duration)
    /\ UNCHANGED <<clock, deriveVars, handled, serverVars, cacheVars, chatVars,
                   linkVars, listenerVars, queryVars>>

\* Toast.tsx 68-73: the close button of a shown toast is clicked
Close(id) ==
    /\ id \in ToastIds(toastList)
    /\ toastTimers' = toastTimers \cup {[id |-> id, due |-> clock + ExitDelay]}
    /\ UNCHANGED <<clock, toastList, toastIdRef, deriveVars, handled, serverVars,
                   cacheVars, chatVars, linkVars, listenerVars, queryVars>>

\* A timer that is due runs its callback: removeToast(id)
TimerFires(timer) ==
    /\ timer \in toastTimers
    /\ timer.due <= clock
    /\ toastList' = RemoveToast(toastList, timer.id)
    /\ toastTimers' = toastTimers \ {timer}
    /\ UNCHANGED <<clock, toastIdRef, deriveVars, handled, serverVars, cacheVars,
                   chatVars, linkVars, listenerVars, queryVars>>

\* Time passes to the instant t; a timer runs before time passes its due time
ToastElapse(t) ==
    /\ t > clock
    /\ \A timer \in toastTimers : timer.due >= t
    /\ clock' = t
    /\ UNCHANGED <<toastVars, deriveVars, handled, serverVars, cacheVars, chatVars,
                   linkVars, listenerVars, queryVars>>

ToastInit ==
    /\ toastList = << >>
    /\ toastIdRef = 0
    /\ toastTimers = {}

ToastNext ==
    \/ \E m \in ToastMessages, d \in Durations : Show(m, "info", d)
    \/ \E id \in ToastIds(toastList) : Close(id)
    \/ \E timer \in toastTimers : TimerFires(timer)
    \/ \E t \in ToastInstants \cup {timer.due : timer \in toastTimers} : ToastElapse(t)

----------------------------------------------------------------------------
(* utils/errorHandler: getUserFriendlyMessage and handleApiError *)

\* errorHandler 7-26
ERROR_MESSAGES ==
    [NETWORK_ERROR    |-> "Unable to connect. Please check your internet connection.",
     TIMEOUT          |-> "The request timed out. Please try again.",
     BAD_REQUEST      |-> "Invalid request. Please check your input.",
     UNAUTHORIZED     |-> "Your session has expired. Please log in again.",
     FORBIDDEN        |-> "You don't have permission to perform this action.",
     NOT_FOUND        |-> "The requested resource was not found.",
     CONFLICT         |-> "A conflict occurred. Please refresh and try again.",
     VALIDATION_ERROR |-> "Please correct the errors and try again.",
     SERVER_ERROR     |-> "Something went wrong on our end. Please try again later.",
     MAINTENANCE      |-> "The system is under maintenance. Please try again later.",
     UNKNOWN_ERROR    |-> "Something went wrong. Please try again."]

\* The messages an error carries; "" is the empty string
ErrorTexts ==
    {"", "duplicate key value violates unique constraint users_pkey",
     "Network unreachable", "Failed to fetch", "Timeout of 5000ms exceeded"}

\* String.prototype.toLowerCase on those messages
ToLowerCase(text) ==
    CASE text = "Network unreachable" -> "network unreachable"
      [] text = "Failed to fetch" -> "failed to fetch"
      [] text = "Timeout of 5000ms exceeded" -> "timeout of 5000ms exceeded"
      [] OTHER -> text

\* String.prototype.includes on the lowercased messages
Includes(text, word) ==
    \/ word = "network" /\ text = "network unreachable"
    \/ word = "fetch" /\ text = "failed to fetch"
    \/ word = "timeout" /\ text = "timeout of 5000ms exceeded"

Statuses == {0, 400, 401, 403, 404, 408, 409, 418, 422, 500, 501, 502, 503, 504}
Codes == {"NETWORK_ERROR", "PARSE_ERROR", "HTTP_ERROR"}

\* The values a catch block hands to handleApiError: an ApiError, another Error,
\* or a value that is no Error at all
ErrorValues ==
    {[kind |-> "ApiError", status |-> s, code |-> c, message |-> m] :
        s \in Statuses, c \in Codes, m \in ErrorTexts}
    \cup {[kind |-> k, status |-> 0, code |-> None, message |-> m] :
        k \in {"Error", "other"}, m \in ErrorTexts}

\* The caller's customMessage; "" when none is passed
CustomMessages == {"", "Could not save the case."}

\* a || b on strings
OrElse(a, b) == IF a # "" THEN a ELSE b

\* errorHandler 50-98
getUserFriendlyMessage(error) ==
    IF error.kind = "ApiError"
    THEN CASE error.status = 0 -> ERROR_MESSAGES.NETWORK_ERROR
           [] error.status = 400 -> OrElse(error.message, ERROR_MESSAGES.BAD_REQUEST)
           [] error.status = 401 -> ERROR_MESSAGES.UNAUTHORIZED
           [] error.status = 403 -> ERROR_MESSAGES.FORBIDDEN
           [] error.status = 404 -> ERROR_MESSAGES.NOT_FOUND
           [] error.status = 409 -> ERROR_MESSAGES.CONFLICT
           [] error.status = 422 -> ERROR_MESSAGES.VALIDATION_ERROR
           [] error.status \in {408, 504} -> ERROR_MESSAGES.TIMEOUT
           [] error.status \in {500, 501, 502, 503} -> ERROR_MESSAGES.SERVER_ERROR
           [] OTHER ->
                IF error.code = "NETWORK_ERROR" THEN ERROR_MESSAGES.NETWORK_ERROR
                ELSE IF error.code = "PARSE_ERROR" THEN ERROR_MESSAGES.SERVER_ERROR
                ELSE OrElse(error.message, ERROR_MESSAGES.UNKNOWN_ERROR)
    ELSE IF error.kind = "Error"
              /\ (\/ Includes(ToLowerCase(error.message), "network")
                  \/ Includes(ToLowerCase(error.message), "fetch"))
         THEN ERROR_MESSAGES.NETWORK_ERROR
    ELSE IF error.kind = "Error" /\ Includes(ToLowerCase(error.message), "timeout")
         THEN ERROR_MESSAGES.TIMEOUT
    ELSE ERROR_MESSAGES.UNKNOWN_ERROR

\* errorHandler 106-121: the message is shown as an error toast and returned
handleApiError(error, customMessage) ==
    LET userMessage == OrElse(customMessage, getUserFriendlyMessage(error))
    IN /\ AddToast(userMessage, "error", DefaultDuration)
       /\ handled' = [called |-> TRUE, error |-> error,
                      customMessage |-> customMessage, returned |-> userMessage]
       /\ UNCHANGED <<clock, deriveVars, serverVars, cacheVars, chatVars, linkVars,
                      listenerVars, queryVars>>

NoError == [kind |-> "other", status |-> 0, code |-> None, message |-> ""]

ErrorInit ==
    handled = [called |-> FALSE, error |-> NoError, customMessage |-> "",
               returned |-> ""]

ErrorNext ==
    \/ \E e \in ErrorValues, c \in CustomMessages : handleApiError(e, c)

DeriveIdle ==
    /\ local = << >>
    /\ computed = << >>

UiInit ==
    /\ DeriveIdle
    /\ ToastInit
    /\ ErrorInit

DeriveNext ==
    \/ Compute

ClientInit ==
    /\ ListenerInit
    /\ QueryInit
    /\ user = None
    /\ link = "connecting"
    /\ attempts = 0
    /\ isConnected = FALSE
    /\ sid = None
    /\ sendBuffer = << >>
    /\ wire = << >>
    /\ load = "idle"
    /\ missed = FALSE
    /\ viewing = None

ClientNext ==
    \/ Login
    \/ LoadResolves
    \/ LoadFails
    \/ \E c \in CaseIds : ViewCase(c)
    \/ StopViewing
    \/ \E s \in ClientSids : ConnectSucceeds(s)
    \/ ConnectFails
    \/ Lose
    \/ AttemptFails
    \/ GiveUp
    \/ \E s \in ClientSids : AttemptSucceeds(s)
    \/ Deliver
    \/ Connect(PeerSocket)
    \/ \E c \in CaseIds : JoinCase(PeerSocket, c)
    \/ \E d \in PeerChatData : PeerChatSend(d)
    \/ \E d \in CaseUpdateData : CaseUpdate(PeerSocket, d)

Init ==
    /\ clock = 0
    /\ ServerInit
    /\ CacheInit
    /\ ChatInit
    /\ ClientInit
    /\ UiInit

\* Any local message list, before the summaries are derived from it
DeriveInit ==
    /\ clock = 0
    /\ ServerInit
    /\ CacheInit
    /\ ChatInit
    /\ ClientInit
    /\ \E n \in 0..MaxLocal : local \in LocalLists(n)
    /\ computed = << >>
    /\ ToastInit
    /\ ErrorInit

Next ==
    \/ \E s \in SocketIds : Connect(s)
    \/ \E s \in SocketIds, u \in Users : Authenticate(s, u)
    \/ \E s \in SocketIds, d \in ChatSendData : ChatSend(s, d)
    \/ \E s \in SocketIds : Disconnect(s)
    \/ Tick

Spec == Init /\ [][Next]_vars

\* The socket server's room and delivery handlers, for two connections
RoomSockets == {"s1", "s2"}

RoomNext ==
    \/ \E s \in RoomSockets : Connect(s)
    \/ \E s \in RoomSockets, u \in Users : Authenticate(s, u)
    \/ \E s \in RoomSockets, c \in CaseIds : JoinCase(s, c)
    \/ \E s \in RoomSockets, c \in CaseIds : LeaveCase(s, c)
    \/ \E s \in RoomSockets, d \in ChatReadData : ChatRead(s, d)
    \/ \E s \in RoomSockets, d \in NotificationSendData : NotificationSend(s, d)
    \/ \E s \in RoomSockets, d \in CaseUpdateData : CaseUpdate(s, d)
    \/ \E s \in RoomSockets : Disconnect(s)

RoomSpec == Init /\ [][RoomNext]_vars

CacheSpec == Init /\ [][CacheNext]_vars

ChatSpec == Init /\ [][ChatNext]_vars

ClientSpec == Init /\ [][ClientNext]_vars

\* The room and delivery handlers with events that carry no payload
FaultNext ==
    \/ RoomNext
    \/ \E s \in RoomSockets, name \in EventNames : NoPayload(s, name)

FaultSpec == Init /\ [][FaultNext]_vars

ListenerSpec == Init /\ [][ListenerNext]_vars

QuerySpec == Init /\ [][QueryNext]_vars

DeriveSpec == DeriveInit /\ [][DeriveNext]_vars

ToastSpec == Init /\ [][ToastNext]_vars

ErrorSpec == Init /\ [][ErrorNext]_vars

\* The connection of the sending client
SenderSocket == "s1"

\* ChatContext 403, services/socket 78-86: the chat:send event of a sendMessage
\* call, emitted before chatApi.sendMessage is awaited
ChatSendOf(call) ==
    [receiverId |-> call.receiverId, senderId |-> Me, senderName |-> NameOf(Me),
     message |-> call.message]

\* The server handles the chat:send of the sendMessage call made last
Relay ==
    /\ send.pc # "idle"
    /\ ChatSend(SenderSocket, ChatSendOf(send))

\* One client's sendMessage with the server and a receiver's connection
SendNext ==
    \/ \E s \in {SenderSocket, PeerSocket} : Connect(s)
    \/ Authenticate(SenderSocket, Me)
    \/ \E u \in Users \ {Me} : Authenticate(PeerSocket, u)
    \/ \E r \in Peers, b \in SendBodies : SendStart(r, b)
    \/ SendSucceeds
    \/ SendFails
    \/ SendRejected
    \/ Relay
    \/ Tick

SendSpec == Init /\ [][SendNext]_vars

----------------------------------------------------------------------------
(* Claims about the socket server, checked under Spec *)

\* The connections that received an event in the step
Received(t) == Len(inbox'[t]) = Len(inbox[t]) + 1

\* The connections bound to an identity in the connection registry
BoundTo(userId) ==
    {t \in sockets : t \in DOMAIN connectedUsers /\ connectedUsers[t] = userId}

\* C1: a chat:send naming receiver R, sent by a connection of identity S # R, is
\* emitted to exactly the members of R's identity group when it is handled, and
\* none of the connections of S receives it.
C1_OnlyReceiverGroupNotSender ==
    [][\A s \in SocketIds, d \in ChatSendData :
          (/\ ChatSend(s, d)
           /\ s \in BoundTo(d.senderId)
           /\ d.senderId # d.receiverId)
          => /\ \A t \in SocketIds :
                   Received(t) <=> t \in rooms[UserRoom(d.receiverId)]
             /\ \A t \in BoundTo(d.senderId) : inbox'[t] = inbox[t]]_vars

\* C2: one chat:send makes every member connection of the receiver's identity
\* group receive exactly one chat:receive event, and the events of all members
\* carry the same message id; no other connection receives anything.
C2_EveryMemberOnceSameId ==
    [][\A s \in SocketIds, d \in ChatSendData :
          ChatSend(s, d)
          => LET group == rooms[UserRoom(d.receiverId)]
             IN /\ \A t \in group :
                      /\ Len(inbox'[t]) = Len(inbox[t]) + 1
                      /\ SubSeq(inbox'[t], 1, Len(inbox[t])) = inbox[t]
                      /\ inbox'[t][Len(inbox'[t])].name = "chat:receive"
                /\ \A t1, t2 \in group :
                      inbox'[t1][Len(inbox'[t1])].payload.id
                         = inbox'[t2][Len(inbox'[t2])].payload.id
                /\ \A t \in SocketIds \ group : inbox'[t] = inbox[t]]_vars

\* C2 witness: two live connections of one identity group hold the same event
C2_Witness ==
    \E u \in Users : \E t1, t2 \in rooms[UserRoom(u)] :
        /\ t1 # t2
        /\ Len(inbox[t1]) = 1
        /\ Len(inbox[t2]) = 1
        /\ inbox[t1][1] = inbox[t2][1]
        /\ inbox[t1][1].name = "chat:receive"

\* C16: an authenticated connection is a member of exactly one identity group,
\* the group of the identity it authenticated as last: authenticating again as
\* another identity takes it out of the previous identity's group.
C16_ExactlyOneIdentityGroup ==
    \A s \in sockets :
        s \in DOMAIN connectedUsers
        => {u \in Users : s \in rooms[UserRoom(u)]} = {connectedUsers[s]}

\* C29: the connection count returned by the status query is the number of
\* live connections.
C29_HealthCountsLiveConnections ==
    Health.sockets = Cardinality(sockets)

\* C32: the senderId of every delivered chat:receive is the identity the
\* publishing connection authenticated as; a connection that has not
\* authenticated publishes nothing.
C32_SenderIsAuthenticatedIdentity ==
    [][\A s \in SocketIds, d \in ChatSendData :
          (ChatSend(s, d) /\ \E t \in SocketIds : Received(t))
          => /\ s \in DOMAIN connectedUsers
             /\ connectedUsers[s] = d.senderId]_vars

\* C37: the connection registry holds exactly live connections: the entry of a
\* connection is removed when it disconnects, whatever it authenticated with.
C37_RegistryOnlyLiveConnections ==
    DOMAIN connectedUsers \subseteq sockets

\* C27: no event, whatever its payload, ends the server: the process is never
\* in a fatal state and goes on handling events.
C27_NoFatalState ==
    ~fatal

----------------------------------------------------------------------------
(* Claims about rooms and direct delivery, checked under RoomSpec *)

\* The events a connection received in the step
NewEvents(t) == SubSeq(inbox'[t], Len(inbox[t]) + 1, Len(inbox'[t]))

\* C12: a case:update naming case X delivers the update to every member of X's
\* case room and, when an assignee is named, to every member of the assignee's
\* identity group, members of the case room or not; no other connection
\* receives anything, and without an assignee only the case room receives it.
C12_UpdateToCaseRoomAndAssignee ==
    [][\A s \in RoomSockets, d \in CaseUpdateData :
          CaseUpdate(s, d)
          => LET group == rooms[CaseRoom(d.caseId)]
                 assignee == IF d.assignedUserId \in Users
                             THEN rooms[UserRoom(d.assignedUserId)]
                             ELSE {}
             IN \A t \in SocketIds :
                   /\ SubSeq(inbox'[t], 1, Len(inbox[t])) = inbox[t]
                   /\ \A i \in 1..Len(NewEvents(t)) :
                         NewEvents(t)[i] = [name |-> "case:updated", payload |-> d.update]
                   /\ NewEvents(t) # << >> <=> t \in group \cup assignee]_vars

\* C12 witness: a connection of the assignee that never joined the case room
\* holds the update while the case room is empty, and a live connection that is
\* in neither group holds nothing
C12_Witness ==
    \E t1, t2 \in sockets : \E u \in Users, c \in CaseIds, up \in Updates :
        /\ rooms[CaseRoom(c)] = {}
        /\ closed = {}
        /\ t1 \in rooms[UserRoom(u)]
        /\ inbox[t1] = <<[name |-> "case:updated", payload |-> up]>>
        /\ t2 \notin rooms[UserRoom(u)]
        /\ inbox[t2] = << >>

\* C13: a chat:read is answered with one chat:read:confirm {userId: receiverId}
\* to exactly the members of the sender's identity group, and a
\* notification:send with one notification:receive carrying the notification to
\* exactly the members of the recipient's identity group.
C13_DirectDeliveryToAddresseeGroup ==
    [][/\ \A s \in RoomSockets, d \in ChatReadData :
             ChatRead(s, d)
             => \A t \in SocketIds :
                   inbox'[t] = IF t \in rooms[UserRoom(d.senderId)]
                               THEN Append(inbox[t],
                                           [name |-> "chat:read:confirm",
                                            payload |-> [userId |-> d.receiverId]])
                               ELSE inbox[t]
       /\ \A s \in RoomSockets, d \in NotificationSendData :
             NotificationSend(s, d)
             => \A t \in SocketIds :
                   inbox'[t] = IF t \in rooms[UserRoom(d.recipientId)]
                               THEN Append(inbox[t],
                                           [name |-> "notification:receive",
                                            payload |-> d.notification])
                               ELSE inbox[t]]_vars

\* C13 witness: the read receipt for a message from A to B is held by A's
\* connection and not by B's
C13_Witness ==
    \E t1, t2 \in sockets :
        /\ t1 \in rooms[UserRoom("A")]
        /\ t2 \in rooms[UserRoom("B")] \ rooms[UserRoom("A")]
        /\ inbox[t1] = <<[name |-> "chat:read:confirm", payload |-> [userId |-> "B"]]>>
        /\ inbox[t2] = << >>

\* C14: an event emitted to rooms without a member is delivered to no
\* connection, and a connection joining a room afterwards (join:case or
\* authenticate) is not handed any earlier event.
C14_EmptyGroupDropsWithoutReplay ==
    [][/\ \A s \in RoomSockets, d \in CaseUpdateData :
             (/\ CaseUpdate(s, d)
              /\ rooms[CaseRoom(d.caseId)] = {}
              /\ d.assignedUserId \in Users => rooms[UserRoom(d.assignedUserId)] = {})
             => inbox' = inbox
       /\ \A s \in RoomSockets, d \in ChatReadData :
             (ChatRead(s, d) /\ rooms[UserRoom(d.senderId)] = {}) => inbox' = inbox
       /\ \A s \in RoomSockets, d \in NotificationSendData :
             (NotificationSend(s, d) /\ rooms[UserRoom(d.recipientId)] = {})
             => inbox' = inbox
       /\ \A s \in RoomSockets, c \in CaseIds : JoinCase(s, c) => inbox' = inbox
       /\ \A s \in RoomSockets, u \in Users : Authenticate(s, u) => inbox' = inbox]_vars

\* C14 witness: an event has been emitted, no connection was ever closed and no
\* connection holds an event, although by now every room has a member
C14_Witness ==
    /\ emitted > 0
    /\ closed = {}
    /\ \A t \in SocketIds : inbox[t] = << >>
    /\ \A r \in RoomNames : rooms[r] # {}

\* C15: a connection that has disconnected is in no room, identity room or case
\* room, and holds no event emitted after it disconnected.
C15_DisconnectedInNoRoom ==
    \A s \in closed :
        /\ \A r \in RoomNames : s \notin rooms[r]
        /\ inbox[s] = << >>

\* C15 witness: one connection has disconnected and an event has reached a
\* connection that is still live
C15_Witness ==
    \E s \in closed, t \in sockets :
        /\ emitted > 0
        /\ inbox[t] # << >>
        /\ \E r \in RoomNames : rooms[r] = {t}

\* C17: authenticating a connection again with the identity it is already
\* bound to leaves the connection registry and every room as they are.
C17_AuthenticateIdempotent ==
    [][\A s \in RoomSockets, u \in Users :
          (/\ Authenticate(s, u)
           /\ s \in DOMAIN connectedUsers
           /\ connectedUsers[s] = u)
          => UNCHANGED <<connectedUsers, rooms>>]_vars

\* C17 witness: a connection bound to one identity, in that identity's room
\* and in no other room
C17_Witness ==
    \E s \in sockets, u \in Users :
        /\ s \in DOMAIN connectedUsers
        /\ connectedUsers[s] = u
        /\ \A r \in RoomNames : s \in rooms[r] <=> r = UserRoom(u)

\* C18: every member of a case room is a connection that has authenticated.
C18_CaseRoomMembersAuthenticated ==
    \A c \in CaseIds : \A s \in rooms[CaseRoom(c)] : s \in DOMAIN connectedUsers

\* C19: a join:case by a member and a leave:case by a non-member leave every
\* room as it is; one leave:case removes the connection from the case room; and
\* a case:update hands every member of the case room the update exactly once.
C19_JoinLeaveIdempotentDeliveredOnce ==
    [][/\ \A s \in RoomSockets, c \in CaseIds :
             (JoinCase(s, c) /\ s \in rooms[CaseRoom(c)]) => rooms' = rooms
       /\ \A s \in RoomSockets, c \in CaseIds :
             (LeaveCase(s, c) /\ s \notin rooms[CaseRoom(c)]) => rooms' = rooms
       /\ \A s \in RoomSockets, c \in CaseIds :
             LeaveCase(s, c) => s \notin rooms'[CaseRoom(c)]
       /\ \A s \in RoomSockets, d \in CaseUpdateData :
             CaseUpdate(s, d)
             => \A t \in rooms[CaseRoom(d.caseId)] :
                   Len(inbox'[t]) = Len(inbox[t]) + 1]_vars

\* C19 without the case of an update whose named assignee is an identity of the
\* receiving connection: join, leave and delivery to case-room members only
C19_ExceptAssigneeOverlap ==
    [][/\ \A s \in RoomSockets, c \in CaseIds :
             (JoinCase(s, c) /\ s \in rooms[CaseRoom(c)]) => rooms' = rooms
       /\ \A s \in RoomSockets, c \in CaseIds :
             (LeaveCase(s, c) /\ s \notin rooms[CaseRoom(c)]) => rooms' = rooms
       /\ \A s \in RoomSockets, c \in CaseIds :
             LeaveCase(s, c) => s \notin rooms'[CaseRoom(c)]
       /\ \A s \in RoomSockets, d \in CaseUpdateData :
             CaseUpdate(s, d)
             => \A t \in rooms[CaseRoom(d.caseId)] :
                   (d.assignedUserId \in Users
                      => t \notin rooms[UserRoom(d.assignedUserId)])
                   => Len(inbox'[t]) = Len(inbox[t]) + 1]_vars

\* C33: one case:update hands the update to each connection at most once, also
\* to a connection that is in the case room and in the assignee's identity room.
C33_UpdateAtMostOncePerConnection ==
    [][\A s \in RoomSockets, d \in CaseUpdateData :
          CaseUpdate(s, d)
          => \A t \in SocketIds : Len(inbox'[t]) <= Len(inbox[t]) + 1]_vars

----------------------------------------------------------------------------
(* Claims about the response cache, checked under CacheSpec *)

\* C9: a GET is answered from the cache, without running the handler, if and
\* only if an entry for that exact key exists and less than 30 seconds have
\* passed since it was stored; the answer is then the stored value and the cache
\* is left as it is. Otherwise the handler runs and its answer is computed from
\* the durable store as it is now.
C9_ServedIffFreshWithin30s ==
    [][\A k \in Keys :
          Request("GET", k)
          => LET hit == k \in DOMAIN cache /\ clock - cache[k].timestamp < 30000
             IN /\ last'.handlerRan = ~hit
                /\ hit => /\ last'.body = cache[k].data
                          /\ cache' = cache
                /\ ~hit => last'.body = HandlerBody("GET", k, store)]_vars

\* C9 witness: a GET answered from the cache 29 s after the entry was stored
C9_Witness ==
    /\ last.method = "GET"
    /\ ~last.handlerRan
    /\ clock - cache[last.key].timestamp = 29000

\* C10: only successful responses are stored: the cache never holds an error
\* body, and no GET is answered from the cache with one.
C10_NoErrorBodyCached ==
    /\ \A k \in DOMAIN cache : cache[k].data.success
    /\ (last.method = "GET" /\ ~last.handlerRan) => last.body.success

\* C11: a non-GET request never reads from and never writes to the cache: the
\* handler always runs and answers from the durable store as the write left it,
\* and every cache entry, the one for the same path included, is left as it is.
C11_WriteBypassesCache ==
    [][\A m \in Methods \ {"GET"}, k \in Keys :
          Request(m, k)
          => /\ last'.handlerRan
             /\ last'.body = HandlerBody(m, k, store')
             /\ cache' = cache]_vars

\* C11 witness: after a write to a path, a GET of that path within the window
\* was answered from the cache with the value from before the write
C11_Witness ==
    /\ last.method = "GET"
    /\ last.key \in Routed
    /\ ~last.handlerRan
    /\ last.body.version < store
    /\ last.body = cache[last.key].data

\* C31: a GET answered from the cache receives a body that was computed for a
\* request of the same requester.
C31_CachedBodyOfSameRequester ==
    (last.method = "GET" /\ ~last.handlerRan) => computedFor[last.key] = last.by

----------------------------------------------------------------------------
(* Claims about the client chat layer, checked under ChatSpec *)

\* The summary of the conversation with userId
ConvOf(convs, userId) ==
    convs[CHOOSE i \in 1..Len(convs) : convs[i].userId = userId]

\* C3: merging is idempotent on ids: a chat:receive event whose id was already
\* merged from an earlier chat:receive event leaves the message list, the
\* conversation summaries and the unread counter as they are, so that every
\* sequence with repeated ids ends in the state of its distinct ids applied once.
C3_RepeatedIdIsNoOp ==
    [][\A e \in ChatEvents :
          (/\ Receive(e)
           /\ \E i \in 1..Len(messages) :
                 messages[i].id = e.id /\ messages[i].receiverId = None)
          => UNCHANGED <<messages, conversations, unreadCount>>]_vars

\* C4: when the durable-store write of a send has failed, the local list holds
\* no entry for that send and exactly one failure notice has been raised for it.
C4_FailedSendRevertedAndSignalled ==
    send.pc = "failed"
    => /\ OwnCopies(messages, send.receiverId, send.message) = send.before
       /\ toasts = send.toastsBefore + 1

\* C5: for every send the durable store accepted, the local list holds the
\* message under the store's id, no longer under the temporary id, and holds
\* exactly one entry for it.
C5_CanonicalIdNoDuplicate ==
    \A n \in 1..Len(sentLog) :
        /\ sentLog[n].canonical \in Ids(messages)
        /\ sentLog[n].temp \notin Ids(messages)
        /\ Cardinality({i \in 1..Len(messages) :
               messages[i].id \in {sentLog[n].temp, sentLog[n].canonical}}) = 1

\* C6: while the durable-store write of a send is in flight, the local list
\* already holds the provisional message of that send.
C6_ProvisionalWhileInFlight ==
    send.pc = "awaiting"
    => OwnCopies(messages, send.receiverId, send.message) > send.before

\* C7: a chat:receive event never moves a conversation's lastMessageTime back:
\* afterwards it is the maximum of the previous lastMessageTime and the event's
\* timestamp, and an older event leaves lastMessage as it was.
C7_SummaryKeepsLatest ==
    [][\A e \in ChatEvents :
          (Receive(e) /\ HasConversation(conversations, e.senderId))
          => LET old == ConvOf(conversations, e.senderId)
                 new == ConvOf(conversations', e.senderId)
             IN /\ new.lastMessageTime
                     = IF old.lastMessageTime > e.timestamp
                       THEN old.lastMessageTime ELSE e.timestamp
                /\ old.lastMessageTime > e.timestamp
                     => new.lastMessage = old.lastMessage]_vars

\* The locally-known unread messages from a counterpart to the local user (a
\* message that came over the socket carries no receiverId)
UnreadInbound(userId) ==
    {i \in 1..Len(messages) :
        /\ messages[i].senderId = userId
        /\ messages[i].receiverId \in {Me, None}
        /\ ~messages[i].read}

\* C8: every conversation summary's unreadCount is >= 0 and is the number of
\* locally-known unread messages from that counterpart to the local user.
C8_UnreadCountMatchesMessages ==
    \A i \in 1..Len(conversations) :
        /\ conversations[i].unreadCount >= 0
        /\ conversations[i].unreadCount
              = Cardinality(UnreadInbound(conversations[i].userId))

RECURSIVE SumUnread(_)
SumUnread(convs) ==
    IF convs = << >> THEN 0 ELSE Head(convs).unreadCount + SumUnread(Tail(convs))

\* C34: the global unread counter equals the sum of the unreadCount of all
\* conversation summaries.
C34_CounterIsSumOfSummaries ==
    unreadCount = SumUnread(conversations)

\* C35: the conversation list the chat layer exposes has a summary for every
\* counterpart of a locally-known message, sent or received.
C35_SummaryForEveryCounterpart ==
    \A i \in 1..Len(messages) :
        HasConversation(ComputedConversations(messages, conversations),
                        Counterpart(messages[i]))

\* The chat:receive events of a message of the local user that the receiver's
\* connections hold
Delivered(receiverId, body) ==
    {<<t, i>> \in SocketIds \X (1..MaxEmits + 1) :
        /\ i <= Len(inbox[t])
        /\ t \in MembersOf(UserRoom(receiverId))
        /\ inbox[t][i].name = "chat:receive"
        /\ inbox[t][i].payload.senderId = Me
        /\ inbox[t][i].payload.message = body}

\* C36 (checked under SendSpec): when a send has completed with a failed write
\* to the durable store, the message is neither in the sender's list nor with
\* the receiver: the receiver holds no more copies of it than the sender.
C36_FailedSendInNeitherState ==
    send.pc = "failed"
    => /\ OwnCopies(messages, send.receiverId, send.message) = send.before
       /\ Cardinality(Delivered(send.receiverId, send.message))
             <= OwnCopies(messages, send.receiverId, send.message)

\* C20: no two entries of the local message list carry the same id: the id
\* minted for a sent message differs from the id of every other message, sent
\* or received.
C20_MessageIdsUnique ==
    \A i, j \in 1..Len(messages) :
        i # j => messages[i].id # messages[j].id

\* C21: once chatApi.markAsRead has resolved for counterpart U, U's summary has
\* unreadCount 0 and every message from U to the local user is read; no other
\* summary and no message field other than read changes; the total unread
\* counter goes down by U's previous unreadCount, but not below 0.
C21_ReadActionResetsCounterpart ==
    [][MarkSucceeds
       => LET u == mark.userId
              previous == UnreadOf(conversations, u)
          IN /\ Len(conversations') = Len(conversations)
             /\ \A i \in 1..Len(conversations) :
                   IF conversations[i].userId = u
                   THEN conversations'[i] = [conversations[i] EXCEPT !.unreadCount = 0]
                   ELSE conversations'[i] = conversations[i]
             /\ Len(messages') = Len(messages)
             /\ \A i \in 1..Len(messages) :
                   /\ [messages'[i] EXCEPT !.read = messages[i].read] = messages[i]
                   /\ (messages[i].senderId = u /\ messages[i].receiverId \in {Me, None})
                         => messages'[i].read
             /\ unreadCount' = IF unreadCount > previous
                               THEN unreadCount - previous ELSE 0]_vars

\* C22: a chat:read:confirm naming counterpart U that reaches the client
\* corrects the local read state: afterwards every message the local user sent
\* to U is read.
C22_ReadReceiptConsumed ==
    [][\A u \in Peers :
          ReadConfirm(u)
          => \A i \in 1..Len(messages') :
                (messages'[i].senderId = Me /\ messages'[i].receiverId = u)
                => messages'[i].read]_vars

----------------------------------------------------------------------------
(* Claims about the client's socket link, checked under ClientSpec *)

\* The client's connection has been lost at least once
LostBefore == closed \cap ClientSids # {}

\* C23: once the connection is up again after a loss and no fetch is under
\* way, the chat data has been fetched again: no chat event published for the
\* user while the link was down is left out of the local state.
C23_RefetchAfterReconnect ==
    (link = "connected" /\ user # None /\ load = "done") => ~missed

\* C24: a connection made by a reconnect is in no case room; the client's
\* connection becomes a member of a case room only when the server handles a
\* join:case sent for that case, and while it is not a member no case:updated
\* is delivered to it through the case room.
C24_NoImplicitRejoin ==
    [][/\ \A s \in ClientSids :
             AttemptSucceeds(s) => \A c \in CaseIds : s \notin rooms'[CaseRoom(c)]
       /\ \A c \in CaseIds :
             (/\ sid' # None
              /\ sid' \in rooms'[CaseRoom(c)]
              /\ ~(sid' = sid /\ sid \in rooms[CaseRoom(c)]))
             => (Deliver /\ Head(wire) = [name |-> "join:case", arg |-> c])
       /\ \A d \in CaseUpdateData :
             (/\ CaseUpdate(PeerSocket, d)
              /\ sid # None
              /\ sid \notin rooms[CaseRoom(d.caseId)]
              /\ d.assignedUserId \in Users => sid \notin rooms[UserRoom(d.assignedUserId)])
             => inbox'[sid] = inbox[sid]]_vars

\* C24 witness: after a reconnect the component still views a case, nothing is
\* buffered or on the wire, the connection is not in that case's room and holds
\* no event, while the other user's connection, a member of the room, holds a
\* case:updated
C24_Witness ==
    /\ LostBefore
    /\ link = "connected"
    /\ viewing # None
    /\ sendBuffer = << >>
    /\ wire = << >>
    /\ sid \notin rooms[CaseRoom(viewing)]
    /\ inbox[sid] = << >>
    /\ PeerSocket \in rooms[CaseRoom(viewing)]
    /\ Len(inbox[PeerSocket]) = 1
    /\ inbox[PeerSocket][1].name = "case:updated"

\* C25: at most 5 reconnection attempts are made after a loss; once they have
\* all failed no further attempt is made; and whenever the link is not
\* connected the state shown to the UI is 'not connected'.
C25_BoundedReconnectOffline ==
    [][/\ attempts' <= 5
       /\ link' # "connected" => ~isConnected'
       /\ link = "failed" => (link' = "failed" /\ attempts' = attempts)]_vars

\* C25 witness: the connection was lost, 5 attempts failed, the client has
\* given up and shows 'not connected'
C25_Witness ==
    /\ LostBefore
    /\ link = "failed"
    /\ attempts = 5
    /\ ~isConnected

\* C30: when a logged-in client's connection is up and none of its packets is
\* still under way, the server has the connection in the user's identity room.
C30_ConnectionInIdentityRoom ==
    (link = "connected" /\ user # None /\ wire = << >>)
    => sid \in rooms[UserRoom(user)]

----------------------------------------------------------------------------
(* Claims about the client socket's listeners, checked under ListenerSpec *)

\* C26: unsubscribing removes exactly the callback it was returned for and no
\* other listener, an event calls only callbacks that are still subscribed,
\* and ChatProvider has at most one chat:receive listener, so that one inbound
\* chat event is merged once.
C26_UnsubscribeExactSingleListener ==
    [][/\ \A name \in ComponentEvents, cb \in 1..MaxCallbacks :
            Unsubscribe(name, cb) =>
                /\ listeners'[name] = SelectSeq(listeners[name], LAMBDA c : c # cb)
                /\ \A n \in ListenerEvents \ {name} : listeners'[n] = listeners[n]
       /\ \A name \in ListenerEvents :
            Dispatch(name) =>
                /\ \A i \in 1..Len(invoked') : invoked'[i] = held[name]
                /\ name = "chat:receive" => Len(invoked') <= 1
       /\ Len(listeners'["chat:receive"]) <= 1]_vars

\* ChatProvider has resubscribed, a later callback of a component is gone
\* again, and a chat event called the provider's current callback alone
C26_Witness ==
    /\ Len(invoked) = 1
    /\ invoked[1] = held["chat:receive"]
    /\ invoked[1] > 1
    /\ gen > invoked[1]
    /\ \A n \in ComponentEvents : listeners[n] = << >>

----------------------------------------------------------------------------
(* Claims about the entity cache, checked under QuerySpec *)

\* C28 as stated: an entry past the eviction window of 10 minutes is evicted,
\* whether it is in use or not.
C28_EvictedRegardlessOfUse ==
    qEntry # NoEntry => clock - qEntry.updatedAt < 600000

\* C28 amended: a mounting component is served a fresh entry (younger than 5
\* minutes) from the cache without a fetch, and a stale entry at once with a
\* fetch in the background; an entry is evicted once it has been unused for 10
\* minutes, and an entry in use is not evicted.
C28_EvictedAfterUnused ==
    [][/\ (Mount /\ qEntry # NoEntry /\ clock - qEntry.updatedAt < 300000) =>
            (qServed'.cached /\ qFetching' = qFetching /\ qEntry' = qEntry)
       /\ (Mount /\ qEntry # NoEntry /\ clock - qEntry.updatedAt >= 300000) =>
            (qServed'.cached /\ qFetching' /\ qEntry' = qEntry)
       /\ (qEntry' # NoEntry /\ qObservers' = 0 /\ ~qFetching') =>
            clock' - qInactiveSince' < 600000
       /\ (qEntry # NoEntry /\ qObservers > 0) => qEntry' # NoEntry]_vars

\* An entry in use is still cached 10 minutes after it was fetched, and the
\* component mounted last was served it
C28_Witness ==
    /\ qEntry # NoEntry
    /\ qObservers > 0
    /\ qServed.cached
    /\ clock - qEntry.updatedAt >= 600000

----------------------------------------------------------------------------
(* Claims about the derived conversation summaries, checked under DeriveSpec *)

\* The positions of the messages exchanged with a counterpart
MessagesWith(userId) ==
    {i \in 1..Len(local) :
        \/ local[i].senderId = Me /\ local[i].receiverId = userId
        \/ local[i].senderId = userId /\ local[i].receiverId = Me}

\* C38: with no loaded or event-built summaries, the summaries derived from the
\* local messages are one per counterpart of a message; each carries the
\* maximum timestamp of the counterpart's messages as lastMessageTime, the body
\* of a message with that timestamp as lastMessage, and the number of unread
\* messages from the counterpart to the local user as unreadCount; the list is
\* ordered by lastMessageTime, newest first.
C38_DerivedSummaries ==
    [][Compute =>
        LET counterparts == {u \in Peers : MessagesWith(u) # {}}
        IN /\ Len(computed') = Cardinality(counterparts)
           /\ {computed'[j].userId : j \in 1..Len(computed')} = counterparts
           /\ \A j \in 1..Len(computed') :
                 LET c == computed'[j]
                     mine == MessagesWith(c.userId)
                 IN /\ \A i \in mine : local[i].timestamp <= c.lastMessageTime
                    /\ \E i \in mine : /\ local[i].timestamp = c.lastMessageTime
                                        /\ local[i].message = c.lastMessage
                    /\ c.unreadCount = Cardinality({i \in mine :
                                           /\ local[i].senderId = c.userId
                                           /\ ~local[i].read})
           /\ \A j, k \in 1..Len(computed') :
                 j < k => computed'[j].lastMessageTime >= computed'[k].lastMessageTime
      ]_vars

\* Two counterparts: the one of the later message comes first, though its
\* message is second in the list, and it has an unread message
C38_Witness ==
    /\ Len(local) = 2
    /\ Len(computed) = 2
    /\ computed[1].userId = local[2].senderId
    /\ computed[1].unreadCount = 1
    /\ computed[1].lastMessageTime > computed[2].lastMessageTime

----------------------------------------------------------------------------
(* Claims about toasts, checked under ToastSpec *)

\* C39: the toasts of the list have pairwise distinct ids and a new toast's id
\* differs from every id given before; a toast leaves the list only when a
\* timer that is due removes it; no toast is in the list after its duration
\* has elapsed; and a removal of a toast that is gone leaves the list as it is.
C39_ToastLifecycle ==
    [][/\ \A i, j \in 1..Len(toastList') :
            toastList'[i].id = toastList'[j].id => i = j
       /\ \A m \in ToastMessages, d \in Durations :
            Show(m, "info", d)
            => /\ toastList'[Len(toastList')].id \notin ToastIds(toastList)
               /\ \A timer \in toastTimers :
                     timer.id # toastList'[Len(toastList')].id
               /\ SubSeq(toastList', 1, Len(toastList)) = toastList
       /\ \A i \in 1..Len(toastList) :
            toastList[i].id \notin ToastIds(toastList')
            => \E timer \in toastTimers :
                  /\ timer.id = toastList[i].id
                  /\ timer.due <= clock
                  /\ timer \notin toastTimers'
       /\ \A i \in 1..Len(toastList') :
            clock' <= toastList'[i].id[2] + toastList'[i].duration
       /\ \A timer \in toastTimers :
            (TimerFires(timer) /\ timer.id \notin ToastIds(toastList))
            => toastList' = toastList]_vars

\* The first toast is gone while a timer of it is still pending, and the
\* second toast is shown
C39_Witness ==
    /\ Len(toastList) = 1
    /\ toastList[1].id[3] = 1
    /\ \E timer \in toastTimers : timer.id[3] = 0

----------------------------------------------------------------------------
(* Claims about the error handler, checked under ErrorSpec *)

\* C40: the text handleApiError returns and shows is the caller's custom
\* message or one of the fixed texts of ERROR_MESSAGES, never the error's own
\* message.
C40_NeverTheErrorsOwnMessage ==
    handled.called
    => /\ handled.returned
             \in {ERROR_MESSAGES[k] : k \in DOMAIN ERROR_MESSAGES}
                 \cup ({handled.customMessage} \ {""})
       /\ toastList[Len(toastList)].message = handled.returned

====
